---- MODULE Spec2Model ----
(***************************************************************************)
(* funk_svd/dataset.py: the MovieLens 20M cache-resolution state machine.  *)
(*                                                                         *)
(* The persistent state is the filesystem: the base cache directory, the   *)
(* archive base/ml-20m.zip, the source file base/ml-20m/ratings.csv and a  *)
(* file at a caller-supplied path.  fetch_ml20m_ratings inspects it, does  *)
(* one step (load, unzip or download) and calls itself again.              *)
(***************************************************************************)
EXTENDS Integers, Sequences, FiniteSets, TLC

VARIABLES
    baseDir,      \* TRUE iff the base cache directory exists
    csv,          \* file at csv_path: None, or Some(lines)
    zip,          \* file at zip_path: None, or Some(archive)
    userFile,     \* file at the caller-supplied path: None, or Some(lines)
    stray,        \* paths, other than csv_path, that an extraction wrote
    pc,           \* "idle", "check" (line 81 of a frame), "returned", "error"
    mode,         \* argument of the running frame: "default" (None) or "override"
    depth,        \* number of fetch_ml20m_ratings frames on the call stack
    outcome,      \* how the call ended: "none", "ok" or the error raised
    table,        \* the DataFrame the call returned (<<>> until then)
    calls,        \* number of calls the caller has made
    start,        \* the cache as the running call found it
    fetches,      \* urlopen calls made by the running call
    extractions,  \* extractall calls made by the running call
    removals,     \* os.remove calls made by the running call
    mkdirs,       \* os.makedirs calls made by the running call
    loads,        \* read_csv calls made by the running call
    lost,         \* TRUE iff an extraction of the running call completed
                  \* without error and left no file at csv_path
    prev,         \* outcome, table and argument of the previous call
    loc,          \* get_data_dir_path called on its own: its argument, the
                  \* environment, the directories that exist and its result
    procs,        \* two simultaneous invocations: each one's position
    zipWriters    \* the invocations writing to the file now at zip_path

vars == <<baseDir, csv, zip, userFile, stray, pc, mode, depth, outcome, table,
          calls, start, fetches, extractions, removals, mkdirs, loads, lost, prev,
          loc, procs, zipWriters>>

fsVars   == <<baseDir, csv, zip, userFile, stray>>
histVars == <<fetches, extractions, removals, mkdirs, loads, lost>>

\* what a single caller's fetch_ml20m_ratings leaves alone: the locator called
\* on its own and the two simultaneous invocations
auxVars  == <<loc, procs, zipWriters>>

\* the variables of the single caller's call
callVars == <<pc, mode, depth, outcome, table, calls, start, prev>>

----------------------------------------------------------------------------
(* Bounds of the model *)

\* data rows of a file given to the loader
MaxRows == 3
\* the latest epoch second of a data row
MaxStamp == 3
\* calls the caller makes one after the other
MaxCalls == 2
\* frames the interpreter allows before it raises RecursionError
MaxDepth == 4

----------------------------------------------------------------------------
(* Values *)

None    == <<>>
Some(x) == <<x>>
IsSome(o) == o # <<>>
Get(o)  == o[1]

\* the two simultaneous invocations
Procs == {1, 2}

\* the locator not called
LocIdle == [pc |-> "idle", dirs |-> {}, env |-> None, arg |-> None,
            result |-> None, made |-> FALSE]

\* an invocation not started
ProcIdle == [pc |-> "idle", depth |-> 0, outcome |-> "none", fetches |-> 0,
             overlapped |-> FALSE, handle |-> None, sawWriter |-> FALSE,
             table |-> <<>>]

\* neither the locator on its own nor a second invocation is running
AuxIdle ==
    /\ loc = LocIdle
    /\ procs = [p \in Procs |-> ProcIdle]
    /\ zipWriters = {}

\* A line of a delimited file is its tuple of fields <<u_id, i_id, rating,
\* timestamp>>.  The header line "userId,movieId,rating,timestamp" is the
\* tuple below.
HeaderLine == <<0, 0, 0, 0>>

\* The data rows the remote archive holds, in file order (not in timestamp
\* order).
Dataset == << <<1, 1, 4, 30>>, <<1, 2, 3, 10>>, <<2, 1, 5, 20>> >>

\* The lines of ratings.csv as the archive holds it.
DatasetLines == <<HeaderLine>> \o Dataset

\* The strict prefixes of the complete file: what an interrupted write left.
PartialLines == { SubSeq(DatasetLines, 1, n) : n \in 0..(Len(DatasetLines) - 1) }

----------------------------------------------------------------------------
(* Paths: get_data_dir_path and lines 71-79 *)

BasePath == <<"funk_svd_data">>

dirname  == "ml-20m"
filename == "ratings.csv"

\* os.path.join(data_dir_path, dirname, filename)
CsvPath == BasePath \o <<dirname, filename>>

\* os.path.join(data_dir_path, dirname) + ".zip"
ZipPath == BasePath \o <<"ml-20m.zip">>

\* the directory that contains csv_path
DirectoryPath == BasePath \o <<dirname>>

\* line 89 as it would be if the archive were extracted into the directory
\* that contains csv_path
ExtractDir_directory == DirectoryPath

\* the directory zf.extractall is given
ExtractDir == BasePath

----------------------------------------------------------------------------
(* Archives *)

\* An archive has one entry of interest: its name, the lines it holds and
\* the archive's condition:
\*   "intact"     extractall writes the entry and returns
\*   "truncated"  no central directory: ZipFile(zip_path) raises
\*   "badcrc"     extractall writes the entry's data and then raises
GoodArchive      == [entry |-> <<dirname, filename>>, lines |-> DatasetLines,
                     cond |-> "intact"]
ForeignArchive   == [entry |-> <<"other", filename>>, lines |-> DatasetLines,
                     cond |-> "intact"]
TruncatedArchive == [entry |-> <<dirname, filename>>, lines |-> <<>>,
                     cond |-> "truncated"]
DamagedArchive   == [entry |-> <<dirname, filename>>,
                     lines |-> SubSeq(DatasetLines, 1, 2), cond |-> "badcrc"]

\* what the URL may serve
RemoteArchives == {GoodArchive, ForeignArchive, DamagedArchive}

Archives == RemoteArchives \cup {TruncatedArchive}

\* a well-formed file at a caller-supplied path, rows out of timestamp order
UserLines == <<HeaderLine, <<7, 7, 2, 50>>, <<7, 8, 1, 40>> >>

----------------------------------------------------------------------------
(* ml20m_ratings_csv_to_df *)

\* read_csv as it would be with header=None: the first line kept as a row
read_csv_noheader(lines) ==
    IF lines = <<>>
    THEN [raised |-> TRUE, df |-> <<>>]
    ELSE [raised |-> FALSE,
          df |-> [k \in 1..Len(lines) |->
                     [index     |-> k - 1,
                      u_id      |-> lines[k][1],
                      i_id      |-> lines[k][2],
                      rating    |-> lines[k][3],
                      timestamp |-> [secs |-> lines[k][4]]]]]

\* the loader as it would be without sort_values: rows left in file order
sort_values_unsorted(df) == df

\* datetime.datetime.fromtimestamp(float(time)): a point in time
date_parser(time) == [secs |-> time]

\* pd.read_csv(csv_path, names=names, dtype=dtype, header=0, ...): the first
\* line is dropped, every other line becomes a row labelled with its position
\* in the file.  A file without any line raises.
read_csv(lines) ==
    IF lines = <<>>
    THEN [raised |-> TRUE, df |-> <<>>]
    ELSE [raised |-> FALSE,
          df |-> [k \in 1..(Len(lines) - 1) |->
                     [index     |-> k - 1,
                      u_id      |-> lines[k + 1][1],
                      i_id      |-> lines[k + 1][2],
                      rating    |-> lines[k + 1][3],
                      timestamp |-> date_parser(lines[k + 1][4])]]]

\* row r put into the sorted frame df, after the rows that are not later
RECURSIVE InsertRow(_, _)
InsertRow(df, r) ==
    IF df = <<>> THEN <<r>>
    ELSE IF df[Len(df)].timestamp.secs <= r.timestamp.secs
         THEN Append(df, r)
         ELSE Append(InsertRow(SubSeq(df, 1, Len(df) - 1), r), df[Len(df)])

\* df.sort_values(by="timestamp", inplace=True)
RECURSIVE sort_values(_)
sort_values(df) ==
    IF df = <<>> THEN <<>>
    ELSE InsertRow(sort_values(SubSeq(df, 1, Len(df) - 1)), df[Len(df)])

\* df.reset_index(drop=True, inplace=True)
reset_index(df) == [k \in 1..Len(df) |-> [df[k] EXCEPT !.index = k - 1]]

ml20m_ratings_csv_to_df(lines) ==
    LET r == read_csv(lines)
    IN  IF r.raised THEN r
        ELSE [raised |-> FALSE, df |-> reset_index(sort_values(r.df))]

----------------------------------------------------------------------------
(* The collaborators *)

\* extractall as it would be if the last line of an entry were not written
extractall_short(archive, dir) ==
    CASE archive.cond = "truncated" ->
            [raised |-> TRUE, wrote |-> FALSE, path |-> <<>>, lines |-> <<>>]
      [] archive.cond = "badcrc" ->
            [raised |-> TRUE, wrote |-> TRUE, path |-> dir \o archive.entry,
             lines |-> archive.lines]
      [] OTHER ->
            [raised |-> FALSE, wrote |-> TRUE, path |-> dir \o archive.entry,
             lines |-> SubSeq(archive.lines, 1, Len(archive.lines) - 1)]

\* with zipfile.ZipFile(zip_path, "r") as zf: zf.extractall(dir)
\* What the extraction writes, and whether it raises.
extractall(archive, dir) ==
    CASE archive.cond = "truncated" ->
            [raised |-> TRUE, wrote |-> FALSE, path |-> <<>>, lines |-> <<>>]
      [] archive.cond = "badcrc" ->
            [raised |-> TRUE, wrote |-> TRUE, path |-> dir \o archive.entry,
             lines |-> archive.lines]
      [] OTHER ->
            [raised |-> FALSE, wrote |-> TRUE, path |-> dir \o archive.entry,
             lines |-> archive.lines]

\* How a download can go: urlopen raises, the copy raises part-way, or the
\* whole body the URL serves is copied.
DownloadRuns ==
    {[kind |-> k, body |-> GoodArchive] : k \in {"urlopen_raises", "copy_raises"}}
    \cup {[kind |-> "complete", body |-> a] : a \in RemoteArchives}

\* the download as it would be if the body were written to another path
DownloadZip_elsewhere(run) ==
    CASE run.kind = "urlopen_raises" -> [raised |-> TRUE, file |-> None]
      [] run.kind = "copy_raises"    -> [raised |-> TRUE, file |-> None]
      [] OTHER                       -> [raised |-> FALSE, file |-> None]

\* with urllib.request.urlopen(url) as r, open(zip_path, "wb") as f:
\*     shutil.copyfileobj(r, f)
\* The file at zip_path afterwards, and whether the statement raised.  urlopen
\* is evaluated before open(zip_path, "wb") creates the file; a copy that
\* raises leaves the file with what was written so far.
DownloadZip(run) ==
    CASE run.kind = "urlopen_raises" -> [raised |-> TRUE, file |-> None]
      [] run.kind = "copy_raises"    -> [raised |-> TRUE, file |-> Some(TruncatedArchive)]
      [] OTHER                       -> [raised |-> FALSE, file |-> Some(run.body)]

----------------------------------------------------------------------------
(* fetch_ml20m_ratings *)

\* csv_path as it would be if the explicit path were ignored
CsvFile_default == csv

\* the file os.path.exists(csv_path) looks at: lines 75 and 79
CsvFile == IF mode = "default" THEN csv ELSE userFile

\* the branches as they would be without the elif of line 85
Branch_noArchiveCheck ==
    IF IsSome(CsvFile) THEN "SOURCE_READY"
    ELSE IF mode = "override" THEN "UNBOUND"
    ELSE "EMPTY"

\* the branches as they would be if the first frame of a call with no
\* argument did not look for the source file
Branch_refetch ==
    IF IsSome(CsvFile) /\ (mode = "override" \/ depth > 1) THEN "SOURCE_READY"
    ELSE IF mode = "override" THEN "UNBOUND"
    ELSE IF IsSome(zip) THEN "ARCHIVE_READY"
    ELSE "EMPTY"

\* the branches as they would be if the archive were looked for first
Branch_archiveFirst ==
    IF mode = "default" /\ IsSome(zip) THEN "ARCHIVE_READY"
    ELSE IF IsSome(CsvFile) THEN "SOURCE_READY"
    ELSE IF mode = "override" THEN "UNBOUND"
    ELSE "EMPTY"

\* The branch lines 81, 85 and 95 take.  With an explicit path zip_path was
\* never assigned, so evaluating line 85 raises UnboundLocalError.
Branch ==
    IF IsSome(CsvFile) THEN "SOURCE_READY"
    ELSE IF mode = "override" THEN "UNBOUND"
    ELSE IF IsSome(zip) THEN "ARCHIVE_READY"
    ELSE "EMPTY"

\* the cache state a call with no argument finds
CacheState(c, z) ==
    IF IsSome(c) THEN "SOURCE_READY"
    ELSE IF IsSome(z) THEN "ARCHIVE_READY"
    ELSE "EMPTY"

\* get_data_dir_path leaves the directory in existence
DirAfterLocate(exists) == TRUE

\* lines 61-79: the caller calls fetch_ml20m_ratings(a)
Call(a) ==
    /\ pc = "idle"
    /\ calls < MaxCalls
    /\ calls' = calls + 1
    /\ mode' = a
    /\ depth' = 1
    /\ pc' = "check"
    /\ outcome' = "none"
    /\ table' = <<>>
    /\ start' = [csv |-> csv, zip |-> zip, baseDir |-> baseDir]
    /\ IF a = "default"
       THEN /\ baseDir' = DirAfterLocate(baseDir)
            /\ mkdirs' = IF baseDir THEN 0 ELSE 1
       ELSE /\ baseDir' = baseDir
            /\ mkdirs' = 0
    /\ fetches' = 0 /\ extractions' = 0 /\ removals' = 0 /\ loads' = 0
    /\ lost' = FALSE
    /\ UNCHANGED <<csv, zip, userFile, stray, prev>>
    /\ UNCHANGED auxVars

\* lines 81-83
LoadSource ==
    /\ pc = "check"
    /\ Branch = "SOURCE_READY"
    /\ LET r == ml20m_ratings_csv_to_df(Get(CsvFile))
       IN  /\ pc' = IF r.raised THEN "error" ELSE "returned"
           /\ outcome' = IF r.raised THEN "DataFormatError" ELSE "ok"
           /\ table' = r.df
    /\ loads' = loads + 1
    /\ UNCHANGED <<fsVars, mode, depth, calls, start, fetches, extractions,
                   removals, mkdirs, lost, prev>>
    /\ UNCHANGED auxVars

\* line 85 with an explicit path that does not exist
UnboundZipPath ==
    /\ pc = "check"
    /\ Branch = "UNBOUND"
    /\ pc' = "error"
    /\ outcome' = "UnboundLocalError"
    /\ UNCHANGED <<fsVars, mode, depth, table, calls, start, histVars, prev>>
    /\ UNCHANGED auxVars

\* "return fetch_ml20m_ratings()": a new frame with no argument runs lines
\* 71-77, unless the interpreter's frame limit is reached.
Reenter ==
    IF depth < MaxDepth
    THEN /\ depth' = depth + 1
         /\ mode' = "default"
         /\ pc' = "check"
         /\ outcome' = outcome
    ELSE /\ depth' = depth
         /\ mode' = mode
         /\ pc' = "error"
         /\ outcome' = "RecursionError"

\* lines 88-91 as they would be without os.remove(zip_path)
ZipAfterUnzip_keep(r) == zip

\* lines 88-91 as they would be with os.remove(zip_path) in a finally clause
ZipAfterUnzip_always(r) == None

\* lines 88-91: the file at zip_path after the with block; os.remove is
\* reached only when extractall returned
ZipAfterUnzip(r) == IF r.raised THEN zip ELSE None

\* lines 85-93
Unzip ==
    /\ pc = "check"
    /\ Branch = "ARCHIVE_READY"
    /\ LET r == extractall(Get(zip), ExtractDir)
           hit == r.wrote /\ r.path = CsvPath
       IN  /\ extractions' = extractions + 1
           /\ csv' = IF hit THEN Some(r.lines) ELSE csv
           /\ stray' = IF r.wrote /\ ~hit THEN stray \cup {r.path} ELSE stray
           /\ zip' = ZipAfterUnzip(r)
           /\ removals' = IF zip' = zip THEN removals ELSE removals + 1
           /\ IF r.raised
              THEN /\ lost' = lost
                   /\ pc' = "error"
                   /\ outcome' = "ArchiveError"
                   /\ UNCHANGED <<mode, depth>>
              ELSE /\ lost' = (lost \/ ~hit)
                   /\ Reenter
    /\ UNCHANGED <<baseDir, userFile, table, calls, start, fetches, mkdirs,
                   loads, prev>>
    /\ UNCHANGED auxVars

\* lines 95-100
Download ==
    /\ pc = "check"
    /\ Branch = "EMPTY"
    /\ \E run \in DownloadRuns :
         LET r == DownloadZip(run)
         IN  /\ fetches' = fetches + 1
             /\ zip' = r.file
             /\ IF r.raised
                THEN /\ pc' = "error"
                     /\ outcome' = "TransportError"
                     /\ UNCHANGED <<mode, depth>>
                ELSE Reenter
    /\ UNCHANGED <<baseDir, csv, userFile, stray, table, calls, start,
                   extractions, removals, mkdirs, loads, lost, prev>>
    /\ UNCHANGED auxVars

\* the caller takes the result or the exception
Finish ==
    /\ pc \in {"returned", "error"}
    /\ pc' = "idle"
    /\ prev' = [outcome |-> outcome, table |-> table, mode |-> mode,
                calls |-> calls]
    /\ UNCHANGED <<fsVars, mode, depth, outcome, table, calls, start, histVars>>
    /\ UNCHANGED auxVars

CsvFiles == {None} \cup {Some(l) : l \in {DatasetLines} \cup PartialLines}
ZipFiles == {None} \cup {Some(a) : a \in Archives}
UserFiles == {None, Some(<<>>), Some(UserLines)}

Init ==
    /\ baseDir \in BOOLEAN
    /\ csv \in CsvFiles
    /\ zip \in ZipFiles
    /\ (~baseDir => csv = None /\ zip = None)
    /\ userFile \in UserFiles
    /\ stray = {}
    /\ pc = "idle"
    /\ mode = "default"
    /\ depth = 0
    /\ outcome = "none"
    /\ table = <<>>
    /\ calls = 0
    /\ start = [csv |-> csv, zip |-> zip, baseDir |-> baseDir]
    /\ fetches = 0 /\ extractions = 0 /\ removals = 0 /\ mkdirs = 0 /\ loads = 0
    /\ lost = FALSE
    /\ prev = [outcome |-> "none", table |-> <<>>, mode |-> "default", calls |-> 0]
    /\ AuxIdle

Next ==
    \/ \E a \in {"default", "override"} : Call(a)
    \/ LoadSource
    \/ UnboundZipPath
    \/ Unzip
    \/ Download
    \/ Finish

Spec == Init /\ [][Next]_vars

TypeOK ==
    /\ baseDir \in BOOLEAN
    /\ csv \in CsvFiles \cup {Some(DamagedArchive.lines)}
    /\ zip \in ZipFiles
    /\ userFile \in UserFiles
    /\ pc \in {"idle", "check", "returned", "error"}
    /\ mode \in {"default", "override"}
    /\ depth \in 0..MaxDepth
    /\ calls \in 0..MaxCalls

----------------------------------------------------------------------------
(* Vocabulary of the properties *)

\* a call with no argument is running or has just ended
InDefaultCall == pc # "idle" /\ mode = "default"

\* the state the running call found the cache in
StartState == CacheState(start.csv, start.zip)

\* the running call found nothing in the cache but complete files of the
\* dataset
StartClean ==
    /\ start.csv \in {None, Some(DatasetLines)}
    /\ start.zip \in {None, Some(GoodArchive)}

\* the table of the dataset's source file
DatasetTable == ml20m_ratings_csv_to_df(DatasetLines).df

\* the running call follows a call that has ended
Retry == prev.outcome # "none" /\ pc # "idle"

----------------------------------------------------------------------------
(* C1 *)

\* C1: a call with no argument that finds the complete source file, only the
\* complete archive, or neither, and returns, returns the table of the
\* dataset, whichever of the three it found.
C1_StateIndependence ==
    (InDefaultCall /\ pc = "returned" /\ StartClean) => table = DatasetTable

\* a call that found the cache empty has gone through download, extraction
\* and load and has returned the dataset's table
C1_Witness ==
    /\ InDefaultCall /\ pc = "returned" /\ StartClean
    /\ StartState = "EMPTY"
    /\ loads = 1
    /\ table = DatasetTable /\ Len(table) = Len(Dataset)

----------------------------------------------------------------------------
(* C2 *)

----------------------------------------------------------------------------
(* C3 *)

----------------------------------------------------------------------------
(* C4 *)

\* C4: after a call with no argument has returned, a second call with no
\* argument makes no network fetch, no extraction and no deletion, does not
\* raise, and returns a table equal to the first call's.
C4_Idempotence ==
    (Retry /\ prev.outcome = "ok" /\ prev.mode = "default" /\ mode = "default") =>
        /\ fetches = 0 /\ extractions = 0 /\ removals = 0
        /\ pc # "error"
        /\ pc = "returned" => table = prev.table

\* the second call has loaded the source file and returned the first call's
\* table
C4_Witness ==
    /\ Retry /\ prev.outcome = "ok" /\ prev.mode = "default" /\ mode = "default"
    /\ pc = "returned"
    /\ table = prev.table /\ table # <<>>
    /\ loads = 1
    /\ stray = {} /\ zip = None /\ calls = 2

----------------------------------------------------------------------------
(* C5 *)

\* the table of the file at the caller-supplied path: its rows by timestamp,
\* at positions 0 and 1
UserTable ==
    << [index |-> 0, u_id |-> 7, i_id |-> 8, rating |-> 1, timestamp |-> [secs |-> 40]],
       [index |-> 1, u_id |-> 7, i_id |-> 7, rating |-> 2, timestamp |-> [secs |-> 50]] >>

\* C5: a call with an explicit path to an existing file makes no network
\* fetch, no extraction, no deletion and no directory creation and leaves the
\* default cache as it found it, whatever it holds; when the file is a source
\* file the call returns that file's table.
C5_OverrideMode ==
    (pc # "idle" /\ mode = "override" /\ IsSome(userFile)) =>
        /\ fetches = 0 /\ extractions = 0 /\ removals = 0 /\ mkdirs = 0
        /\ baseDir = start.baseDir /\ csv = start.csv /\ zip = start.zip
        /\ (userFile = Some(UserLines) /\ pc # "check") =>
              (pc = "returned" /\ table = UserTable)

\* a call with an explicit path has returned the file's table while the
\* default cache held an archive and no source file
C5_Witness ==
    /\ pc = "returned" /\ mode = "override" /\ userFile = Some(UserLines)
    /\ table = UserTable
    /\ csv = None /\ IsSome(zip)

----------------------------------------------------------------------------
(* C6 *)

\* C6 (as claimed): a call with an explicit path, whether or not a file
\* exists there, invokes the loader on it once and ends either with a table
\* or with a data-format error.
C6_NoExistenceCheck ==
    (mode = "override" /\ pc \in {"returned", "error"}) =>
        /\ loads = 1
        /\ outcome \in {"ok", "DataFormatError"}

----------------------------------------------------------------------------
(* C7 *)

\* C7 (as claimed): a call that ends with the transport error has made one
\* network fetch and leaves no file at zip_path, and the call after it finds
\* the cache EMPTY.
C7_NoPartialArchive ==
    /\ (pc = "error" /\ outcome = "TransportError") =>
          (fetches = 1 /\ zip = None)
    /\ (Retry /\ prev.outcome = "TransportError" /\ mode = "default"
          /\ pc = "check" /\ depth = 1) => Branch = "EMPTY"

----------------------------------------------------------------------------
(* C8 *)

\* what an interrupted run left: the downloaded archive not yet extracted,
\* or the archive with a source file written in part
StartInterrupted ==
    /\ start.zip = Some(GoodArchive)
    /\ start.csv \in {None} \cup {Some(l) : l \in PartialLines}

\* C8 (as claimed): the table a call with no argument returns on a cache an
\* interrupted run left is the complete table of the dataset, never one built
\* from the source file written in part.
C8_SafeAfterInterruption ==
    (InDefaultCall /\ StartInterrupted /\ pc = "returned") =>
        table = DatasetTable

----------------------------------------------------------------------------
(* C9 *)

\* C9 (as claimed): a call with no argument makes at most one network fetch
\* and at most one extraction, and does not re-enter the state machine with
\* the source file still absent after them.
C9_BoundedAttempts ==
    InDefaultCall =>
        /\ fetches <= 1
        /\ extractions <= 1
        /\ ~(pc = "check" /\ fetches = 1 /\ extractions = 1 /\ csv = None)

\* C9 (amended): every frame of a call with no argument makes at most one
\* attempt, a network fetch or an extraction, so the attempts are bounded by
\* the frames only; a call in which every extraction that completes leaves
\* the source file makes at most one network fetch and at most one
\* extraction; a call in which an extraction completed and left no source
\* file re-enters the state machine, and ends with the interpreter's
\* RecursionError when the source file never appears.
C9_AttemptsPerFrame ==
    InDefaultCall =>
        /\ fetches + extractions <= depth
        /\ pc = "check" => fetches + extractions = depth - 1
        /\ ~lost => (fetches <= 1 /\ extractions <= 1)
        /\ (pc = "error" /\ csv = None /\ lost) =>
              outcome \in {"RecursionError", "TransportError", "ArchiveError"}

\* a call has re-entered the state machine after a second network fetch,
\* the source file still absent
C9_Witness ==
    /\ InDefaultCall /\ pc = "check"
    /\ lost /\ csv = None
    /\ fetches = 2 /\ extractions = 1

----------------------------------------------------------------------------
(* C10 *)

\* C10 (as claimed): a call that ends with the extraction error leaves the
\* archive in place; the call after it finds ARCHIVE_READY, extracts again
\* and makes no network fetch.
C10_RetryExtractsAgain ==
    /\ (pc = "error" /\ outcome = "ArchiveError") => IsSome(zip)
    /\ (Retry /\ prev.outcome = "ArchiveError" /\ mode = "default") =>
          /\ fetches = 0
          /\ (pc = "check" /\ depth = 1) => Branch = "ARCHIVE_READY"
          /\ pc \in {"returned", "error"} => extractions >= 1

----------------------------------------------------------------------------
(* The loader on arbitrary source files *)

\* the data rows a file may hold: two ratings at each epoch second
Rows == { <<1, i, 4, t>> : i \in 1..2, t \in 1..MaxStamp }

RECURSIVE RowSeqs(_)
RowSeqs(n) ==
    IF n = 0 THEN {<<>>}
    ELSE LET shorter == RowSeqs(n - 1)
         IN  shorter \cup { Append(q, r) : q \in { x \in shorter : Len(x) = n - 1 },
                                           r \in Rows }

\* the header line followed by at most MaxRows data rows in any order
SourceFiles == { <<HeaderLine>> \o q : q \in RowSeqs(MaxRows) }

\* The caller hands any source file, no file or an empty file to
\* fetch_ml20m_ratings by its path; the default cache is not used.
InitLoad ==
    /\ baseDir = FALSE
    /\ csv = None
    /\ zip = None
    /\ userFile \in {None, Some(<<>>)} \cup { Some(f) : f \in SourceFiles }
    /\ stray = {}
    /\ pc = "idle"
    /\ mode = "default"
    /\ depth = 0
    /\ outcome = "none"
    /\ table = <<>>
    /\ calls = 0
    /\ start = [csv |-> csv, zip |-> zip, baseDir |-> baseDir]
    /\ fetches = 0 /\ extractions = 0 /\ removals = 0 /\ mkdirs = 0 /\ loads = 0
    /\ lost = FALSE
    /\ prev = [outcome |-> "none", table |-> <<>>, mode |-> "default", calls |-> 0]
    /\ AuxIdle

NextLoad ==
    \/ Call("override")
    \/ LoadSource
    \/ UnboundZipPath
    \/ Finish

SpecLoad == InitLoad /\ [][NextLoad]_vars

\* a record of the table as the line it came from
RowOf(rec) == <<rec.u_id, rec.i_id, rec.rating, rec.timestamp.secs>>

\* how often line x occurs among the lines q
Count(q, x) == Cardinality({ k \in DOMAIN q : q[k] = x })

\* the data lines of the file the running call was given
DataLines == Tail(Get(userFile))

\* the call has loaded a file with at least its header line and has ended
Loaded ==
    /\ mode = "override" /\ pc \in {"returned", "error"}
    /\ IsSome(userFile) /\ Get(userFile) # <<>>

----------------------------------------------------------------------------
(* C11 *)

\* C11: the table returned for a source file holds exactly the file's data
\* rows, each as often as the file does, in ascending order of timestamp,
\* at positions 0..n-1, whatever the order of the rows in the file.
C11_SortedPermutation ==
    Loaded =>
        /\ pc = "returned"
        /\ Len(table) = Len(DataLines)
        /\ \A x \in Rows :
              Count([k \in DOMAIN table |-> RowOf(table[k])], x) = Count(DataLines, x)
        /\ \A k \in 1..(Len(table) - 1) :
              table[k].timestamp.secs <= table[k + 1].timestamp.secs
        /\ \A k \in DOMAIN table : table[k].index = k - 1

\* the table of a file whose three rows are in descending order of timestamp
C11_Witness ==
    /\ Loaded /\ pc = "returned"
    /\ Len(DataLines) = 3
    /\ DataLines[1][4] > DataLines[2][4] /\ DataLines[2][4] > DataLines[3][4]
    /\ table[1].timestamp.secs < table[3].timestamp.secs
    /\ RowOf(table[1]) = DataLines[3]

----------------------------------------------------------------------------
(* C12 *)

\* C12: the first line of a source file is never a record of the table, which
\* has one record for each other line; the table of a file that holds the
\* header line only is empty, and the call returns it without raising.
C12_HeaderDiscarded ==
    Loaded =>
        /\ \A k \in DOMAIN table : RowOf(table[k]) # Get(userFile)[1]
        /\ pc = "returned" => Len(table) = Len(Get(userFile)) - 1
        /\ Get(userFile) = <<HeaderLine>> => (pc = "returned" /\ table = <<>>)

\* the call on a file that holds the header line only has returned
C12_Witness ==
    /\ Loaded /\ Get(userFile) = <<HeaderLine>>
    /\ pc = "returned" /\ outcome = "ok" /\ table = <<>> /\ loads = 1

----------------------------------------------------------------------------
(* C13 *)

\* after the step a file that an extraction wrote exists at path p
WrittenAt(p) == IF p = CsvPath THEN IsSome(csv') ELSE p \in stray'

\* the step is an extraction that writes the entry of the archive
ExtractionWrites ==
    /\ extractions' = extractions + 1
    /\ IsSome(zip) /\ Get(zip).cond # "truncated"

\* C13 (as claimed): an extraction writes the archive's entry under
\* directory_path, the directory that contains csv_path.
C13_ExtractsIntoDirectory ==
    [][ExtractionWrites => WrittenAt(DirectoryPath \o Get(zip).entry)]_vars

\* C13 (amended): an extraction writes the archive's entry under the base
\* cache directory, data_dir_path, and not under the directory that contains
\* csv_path; the entry ml-20m/ratings.csv of the dataset's archive so becomes
\* the file at csv_path.  The archive is deleted only in a step that has
\* extracted it.
C13_ExtractsIntoBase ==
    [][ /\ ExtractionWrites =>
              /\ WrittenAt(BasePath \o Get(zip).entry)
              /\ ~WrittenAt(DirectoryPath \o Get(zip).entry)
              /\ Get(zip).entry = <<dirname, filename>> => csv' = Some(Get(zip).lines)
        /\ (IsSome(zip) /\ zip' = None) => extractions' = extractions + 1
      ]_vars

\* the archive found in the cache has been extracted and deleted and the
\* call has re-entered: the source file is at csv_path and nowhere else
C13_Witness ==
    /\ InDefaultCall /\ pc = "check" /\ depth = 2
    /\ start.zip = Some(GoodArchive) /\ start.csv = None
    /\ extractions = 1 /\ removals = 1 /\ fetches = 0
    /\ csv = Some(DatasetLines) /\ zip = None /\ stray = {}

----------------------------------------------------------------------------
(* C14 *)

\* every cache state of Init; the file at a caller-supplied path, which a
\* call with no argument does not read, is the well-formed one
InitFair == Init /\ userFile = Some(UserLines)

\* the caller calls with no argument only
NextFair ==
    \/ Call("default")
    \/ LoadSource
    \/ Unzip
    \/ Download
    \/ Finish

\* fetch_ml20m_ratings is synchronous: a call that has started runs each of
\* its steps to completion.  The caller is not obliged to call.
FairSpec ==
    /\ InitFair /\ [][NextFair]_vars
    /\ WF_vars(LoadSource)
    /\ WF_vars(Unzip)
    /\ WF_vars(Download)

\* a download of the running call did not write the archive, an extraction
\* raised or left no source file, or the loader could not read the source file
ProvisoBroken ==
    \/ lost
    \/ outcome \in {"TransportError", "ArchiveError", "DataFormatError"}

\* C14: a call with no argument, from whatever cache it finds, eventually
\* returns, unless a download does not write the archive, an extraction does
\* not produce the source file or the loader cannot read it; and a call that
\* returns without any of these has re-entered the state machine at most
\* twice.
C14_Convergence ==
    /\ [](( InDefaultCall /\ pc = "returned" /\ ~ProvisoBroken) => depth <= 3)
    /\ (InDefaultCall /\ pc = "check") ~> (pc = "returned" \/ ProvisoBroken)

\* a call that found the cache empty has returned from its third frame, after
\* two re-entries
C14_Witness ==
    /\ InDefaultCall /\ pc = "returned" /\ ~ProvisoBroken
    /\ StartState = "EMPTY" /\ start.baseDir = FALSE
    /\ depth = 3

----------------------------------------------------------------------------
(* C15 *)

\* the step is an extraction that completes without error and leaves no file
\* at csv_path
LostExtraction ==
    /\ extractions' = extractions + 1
    /\ outcome' # "ArchiveError"
    /\ csv' = None

\* C15 (as claimed): after an extraction that left no source file the
\* archive is deleted and the re-entered state machine finds EMPTY, and the
\* repetition of download and extraction that follows ends by itself: it
\* never goes on until the interpreter's frames are used up.
C15_SelfHealingBounded ==
    /\ [][LostExtraction =>
            (zip' = None /\ (pc' = "check" => Branch' = "EMPTY"))]_vars
    /\ [](outcome # "RecursionError")

\* C15 (amended): after an extraction that left no source file the archive
\* is deleted and the call re-enters the state machine, finds EMPTY and makes
\* a fresh network fetch as its next step; download and extraction repeat as
\* long as the fresh archive yields no source file, with no bound but the
\* interpreter's frame limit, where the call ends with RecursionError.
C15_SelfHealing ==
    /\ [][LostExtraction =>
            /\ zip' = None /\ removals' = removals + 1
            /\ pc' = "check" => (Branch' = "EMPTY" /\ depth' = depth + 1)
            /\ pc' = "error" => (outcome' = "RecursionError" /\ depth = MaxDepth)
       ]_vars
    /\ [][(pc = "check" /\ lost /\ csv = None /\ zip = None) =>
            fetches' = fetches + 1]_vars
    /\ [](outcome = "RecursionError" =>
            (lost /\ depth = MaxDepth /\ fetches + extractions = MaxDepth))

\* the call has made a fresh network fetch after an extraction that left no
\* source file, and has re-entered with the fresh archive in place
C15_Witness ==
    /\ InDefaultCall /\ pc = "check"
    /\ StartState = "ARCHIVE_READY"
    /\ lost /\ extractions = 1 /\ removals = 1
    /\ fetches = 1 /\ IsSome(zip) /\ csv = None

----------------------------------------------------------------------------
(* C16 *)

\* C16: a frame that finds the source file, the archive existing or not,
\* loads it and ends the call in that step, without another frame, a network
\* fetch, an extraction or a deletion, and leaves every file and the
\* directory as they are; it returns the table unless the loader raises.
C16_SourceReadyTerminal ==
    [][(pc = "check" /\ IsSome(CsvFile)) =>
          /\ pc' \in {"returned", "error"}
          /\ loads' = loads + 1
          /\ depth' = depth
          /\ UNCHANGED <<baseDir, csv, zip, userFile, stray>>
          /\ UNCHANGED <<fetches, extractions, removals>>
          /\ pc' = "error" => (outcome' = "DataFormatError" /\ Get(CsvFile) = <<>>)
          /\ pc' = "returned" => table' = ml20m_ratings_csv_to_df(Get(CsvFile)).df
      ]_vars

\* the first frame of a call found both the source file and the archive and
\* has returned the source file's table, the archive still in place
C16_Witness ==
    /\ InDefaultCall /\ pc = "returned" /\ depth = 1
    /\ IsSome(start.csv) /\ IsSome(start.zip)
    /\ csv = start.csv /\ zip = start.zip
    /\ loads = 1 /\ extractions = 0 /\ fetches = 0

----------------------------------------------------------------------------
(* C17 *)

\* C17: no step deletes the source file, the cache directory, the file at a
\* caller-supplied path or an extracted file; a step that deletes the archive
\* is an extraction of it that completed without error.
C17_OnlyArchiveDeleted ==
    [][ /\ IsSome(csv) => IsSome(csv')
        /\ baseDir => baseDir'
        /\ IsSome(userFile) => userFile' = userFile
        /\ stray \subseteq stray'
        /\ (IsSome(zip) /\ zip' = None) =>
              /\ extractions' = extractions + 1
              /\ removals' = removals + 1
              /\ outcome' # "ArchiveError"
              /\ ~extractall(Get(zip), ExtractDir).raised
        /\ removals' # removals => (removals' = 0 \/ (IsSome(zip) /\ zip' = None))
      ]_vars

\* the archive the call found has been extracted and deleted, and the source
\* file and the directory exist
C17_Witness ==
    /\ InDefaultCall /\ IsSome(start.zip) /\ zip = None
    /\ removals = 1 /\ extractions = 1
    /\ IsSome(csv) /\ baseDir
    /\ pc = "returned"

----------------------------------------------------------------------------
(* C20 *)

\* C20: a step that makes a network fetch starts with neither the source file
\* nor the archive in existence; a step that extracts starts without the
\* source file; no step replaces the contents of an existing archive or of an
\* existing source file.
C20_NoRedoneWork ==
    [][ /\ fetches' = fetches + 1 =>
              (mode = "default" /\ csv = None /\ zip = None)
        /\ extractions' = extractions + 1 => (csv = None /\ IsSome(zip))
        /\ IsSome(zip) => zip' \in {zip, None}
        /\ IsSome(csv) => csv' = csv
      ]_vars

\* the call that found the cache empty has fetched the archive and re-entered
C20_Witness ==
    /\ InDefaultCall /\ pc = "check" /\ depth = 2
    /\ start.csv = None /\ start.zip = None
    /\ fetches = 1 /\ extractions = 0
    /\ IsSome(zip) /\ csv = None

----------------------------------------------------------------------------
(* get_data_dir_path *)

\* A directory path is the tuple of its components; <<>> is the empty string.
Home == <<"home", "user">>

\* os.path.expanduser: a leading "~" becomes the home directory
expanduser(path) ==
    IF path # <<>> /\ path[1] = "~" THEN Home \o Tail(path) ELSE path

\* os.path.join("~", "funk_svd_data")
DefaultDir == <<"~", "funk_svd_data">>

\* the values FUNK_SVD_DATA may have when it is set, and the explicit
\* arguments a caller may give
EnvValues == {<<"data", "cache">>, <<"~", "cache">>, <<>>}
ArgValues == {<<"tmp", "x">>, <<"~", "x">>, <<>>}

\* lines 34-37 as they would be if the environment were consulted first
get_data_dir_path_envFirst(arg, env) ==
    IF IsSome(env) THEN expanduser(Get(env))
    ELSE IF arg = None THEN expanduser(DefaultDir)
    ELSE Get(arg)

\* lines 34-37 and 42: the path get_data_dir_path settles on, for an argument
\* and a value of FUNK_SVD_DATA that are None or Some(path)
get_data_dir_path(arg, env) ==
    IF arg = None
    THEN expanduser(IF IsSome(env) THEN Get(env) ELSE DefaultDir)
    ELSE Get(arg)

\* the directory path and the directories above it
Prefixes(path) == { SubSeq(path, 1, n) : n \in 1..Len(path) }

\* os.makedirs(path): the directory and its missing parents
makedirs(dirs, path) == dirs \cup Prefixes(path)

\* every directory a call can settle on or create
AllDirs ==
    UNION { Prefixes(get_data_dir_path(a, e)) :
              a \in {None} \cup {Some(x) : x \in ArgValues},
              e \in {None} \cup {Some(x) : x \in EnvValues} }

\* lines 15-42: get_data_dir_path(arg) is called
Locate(arg) ==
    /\ loc.pc = "idle"
    /\ LET path == get_data_dir_path(arg, loc.env)
           exists == path \in loc.dirs
       IN  IF ~exists /\ path = <<>>
           THEN \* os.makedirs("") raises FileNotFoundError
                loc' = [loc EXCEPT !.pc = "raised", !.arg = arg, !.result = None,
                                   !.made = FALSE]
           ELSE loc' = [loc EXCEPT !.pc = "done", !.arg = arg,
                                   !.result = Some(path),
                                   !.made = ~exists,
                                   !.dirs = IF exists THEN @ ELSE makedirs(@, path)]
    /\ UNCHANGED <<fsVars, callVars, histVars, procs, zipWriters>>

\* the caller takes the path or the exception
LocateEnds ==
    /\ loc.pc \in {"done", "raised"}
    /\ loc' = [loc EXCEPT !.pc = "idle"]
    /\ UNCHANGED <<fsVars, callVars, histVars, procs, zipWriters>>

\* Any directories exist, each with the directories above it, and
\* FUNK_SVD_DATA is unset or set.
InitLocate ==
    /\ baseDir = FALSE /\ csv = None /\ zip = None /\ userFile = None
    /\ stray = {}
    /\ pc = "idle" /\ mode = "default" /\ depth = 0 /\ outcome = "none"
    /\ table = <<>> /\ calls = 0
    /\ start = [csv |-> csv, zip |-> zip, baseDir |-> baseDir]
    /\ fetches = 0 /\ extractions = 0 /\ removals = 0 /\ mkdirs = 0 /\ loads = 0
    /\ lost = FALSE
    /\ prev = [outcome |-> "none", table |-> <<>>, mode |-> "default", calls |-> 0]
    /\ procs = [p \in Procs |-> ProcIdle]
    /\ zipWriters = {}
    /\ \E d \in SUBSET AllDirs, e \in {None} \cup {Some(x) : x \in EnvValues} :
          /\ \A q \in d : Prefixes(q) \subseteq d
          /\ loc = [LocIdle EXCEPT !.dirs = d, !.env = e]

NextLocate ==
    \/ \E a \in {None} \cup {Some(x) : x \in ArgValues} : Locate(a)
    \/ LocateEnds

SpecLocate == InitLocate /\ [][NextLocate]_vars

----------------------------------------------------------------------------
(* C19 *)

\* the directory the claim names for the call that has just ended: the
\* explicit argument, else the value of FUNK_SVD_DATA, else funk_svd_data
\* under the home directory; a leading "~" of the latter two is the home
\* directory
ChosenDir ==
    IF IsSome(loc.arg)' THEN Get(loc.arg)'
    ELSE IF IsSome(loc.env) THEN expanduser(Get(loc.env))
    ELSE Home \o <<"funk_svd_data">>

----------------------------------------------------------------------------
(* Two invocations of fetch_ml20m_ratings() on one cache directory *)

\* Each invocation runs lines 71-100 one system call at a time; the file
\* system is all they share.  procs[p].handle is the archive as the open
\* ZipFile of p reads it, zipWriters the invocations that hold the file at
\* zip_path open for writing.

\* what the concurrent invocations leave alone
seqVars == <<userFile, stray, callVars, histVars, loc>>

Active(p) == procs[p].pc \notin {"idle", "done"}

Others(p) == Procs \ {p}

\* the invocation ends with an exception
Raise(p, e) == [procs[p] EXCEPT !.pc = "done", !.outcome = e, !.handle = None]

\* "return fetch_ml20m_ratings()" in invocation p
ReenterIn(p) ==
    IF procs[p].depth < MaxDepth
    THEN [procs[p] EXCEPT !.pc = "check_csv", !.depth = @ + 1, !.handle = None]
    ELSE Raise(p, "RecursionError")

\* the file at zip_path when a writer closes it as it would be if a finished
\* copy left the file as open(zip_path, "wb") made it
FileAfterCopy_empty(writersLeft) == {Some(TruncatedArchive)}

\* The file at zip_path when a writer closes it.  The last writer leaves the
\* whole archive; while another writer, which truncated the file when it
\* opened it, is still copying, the file may be whole, short, or whole in
\* length with a part not yet written again.
FileAfterCopy(writersLeft) ==
    IF writersLeft = {} THEN {Some(GoodArchive)}
    ELSE {Some(GoodArchive), Some(TruncatedArchive), Some(DamagedArchive)}

\* lines 71-77: invocation p is called with no argument
CStart(p) ==
    /\ procs[p].pc = "idle"
    /\ baseDir' = DirAfterLocate(baseDir)
    /\ procs' = [q \in Procs |->
                   IF q = p
                   THEN [ProcIdle EXCEPT !.pc = "check_csv", !.depth = 1,
                                         !.overlapped = \E o \in Others(p) : Active(o)]
                   ELSE IF Active(q) THEN [procs[q] EXCEPT !.overlapped = TRUE]
                   ELSE procs[q]]
    /\ UNCHANGED <<csv, zip, zipWriters>>
    /\ UNCHANGED seqVars

\* line 81: os.path.exists(csv_path)
CCheckCsv(p) ==
    /\ procs[p].pc = "check_csv"
    /\ procs' = [procs EXCEPT ![p].pc = IF IsSome(csv) THEN "load" ELSE "check_zip"]
    /\ UNCHANGED <<baseDir, csv, zip, zipWriters>>
    /\ UNCHANGED seqVars

\* line 85: os.path.exists(zip_path)
CCheckZip(p) ==
    /\ procs[p].pc = "check_zip"
    /\ procs' = [procs EXCEPT ![p].pc = IF IsSome(zip) THEN "zip_open" ELSE "url_open"]
    /\ UNCHANGED <<baseDir, csv, zip, zipWriters>>
    /\ UNCHANGED seqVars

\* lines 82-83; no invocation deletes the source file
CLoad(p) ==
    /\ procs[p].pc = "load"
    /\ LET r == ml20m_ratings_csv_to_df(Get(csv))
       IN  procs' = [procs EXCEPT ![p].pc = "done",
                                  ![p].outcome = IF r.raised THEN "DataFormatError"
                                                 ELSE "ok",
                                  ![p].table = r.df]
    /\ UNCHANGED <<baseDir, csv, zip, zipWriters>>
    /\ UNCHANGED seqVars

\* line 88: zipfile.ZipFile(zip_path, "r") reads the archive's directory
CZipOpen(p) ==
    /\ procs[p].pc = "zip_open"
    /\ procs' = [procs EXCEPT ![p] =
                   IF zip = None THEN Raise(p, "FileNotFoundError")
                   ELSE IF Get(zip).cond = "truncated"
                   THEN [Raise(p, "ArchiveError") EXCEPT
                            !.sawWriter = (zipWriters \ {p} # {})]
                   ELSE [@ EXCEPT !.pc = "extract", !.handle = zip,
                                  !.sawWriter = (zipWriters \ {p} # {})]]
    /\ UNCHANGED <<baseDir, csv, zip, zipWriters>>
    /\ UNCHANGED seqVars

\* line 89: zf.extractall(data_dir_path) creates the source file and writes
\* its first lines, or raises
CExtract(p) ==
    /\ procs[p].pc = "extract"
    /\ LET r == extractall(Get(procs[p].handle), ExtractDir)
       IN  /\ csv' = IF ~r.wrote THEN csv
                     ELSE IF r.raised THEN Some(r.lines)
                     ELSE Some(SubSeq(r.lines, 1, 2))
           /\ procs' = [procs EXCEPT ![p] =
                          IF r.raised THEN Raise(p, "ArchiveError")
                          ELSE [@ EXCEPT !.pc = "extract_end"]]
    /\ UNCHANGED <<baseDir, zip, zipWriters>>
    /\ UNCHANGED seqVars

\* line 89: extractall writes the rest and returns; the with block closes the
\* archive.  While the other invocation is also writing the source file,
\* what the file holds is either.
CExtractEnd(p) ==
    /\ procs[p].pc = "extract_end"
    /\ \E c \in IF \E o \in Others(p) : procs[o].pc = "extract_end"
                THEN {csv, Some(DatasetLines)} ELSE {Some(DatasetLines)} :
          csv' = c
    /\ procs' = [procs EXCEPT ![p].pc = "remove", ![p].handle = None]
    /\ UNCHANGED <<baseDir, zip, zipWriters>>
    /\ UNCHANGED seqVars

\* lines 91-93: os.remove(zip_path), then the call back
CRemove(p) ==
    /\ procs[p].pc = "remove"
    /\ IF zip = None
       THEN /\ procs' = [procs EXCEPT ![p] = Raise(p, "FileNotFoundError")]
            /\ UNCHANGED <<zip, zipWriters>>
       ELSE /\ zip' = None
            /\ zipWriters' = {}
            /\ procs' = [procs EXCEPT ![p] = ReenterIn(p)]
    /\ UNCHANGED <<baseDir, csv>>
    /\ UNCHANGED seqVars

\* line 97: urlopen(url), then open(zip_path, "wb") creates the file or
\* empties the one that is there, under any reader that has it open
CUrlOpen(p) ==
    /\ procs[p].pc = "url_open"
    /\ zip' = Some(TruncatedArchive)
    /\ zipWriters' = zipWriters \cup {p}
    /\ procs' = [q \in Procs |->
                   IF q = p
                   THEN [procs[p] EXCEPT !.pc = "copy", !.fetches = @ + 1]
                   ELSE IF IsSome(zip) /\ IsSome(procs[q].handle)
                   THEN [procs[q] EXCEPT !.handle = Some(TruncatedArchive)]
                   ELSE procs[q]]
    /\ UNCHANGED <<baseDir, csv>>
    /\ UNCHANGED seqVars

\* lines 98-100: copyfileobj ends, the file is closed, then the call back.
\* A writer whose file has been removed writes to no path.
CCopyEnd(p) ==
    /\ procs[p].pc = "copy"
    /\ IF p \in zipWriters
       THEN /\ zipWriters' = zipWriters \ {p}
            /\ zip' \in FileAfterCopy(zipWriters')
       ELSE UNCHANGED <<zip, zipWriters>>
    /\ procs' = [procs EXCEPT ![p] = ReenterIn(p)]
    /\ UNCHANGED <<baseDir, csv>>
    /\ UNCHANGED seqVars

\* one step of invocation p
CStep(p) ==
    \/ CStart(p)
    \/ CCheckCsv(p)
    \/ CCheckZip(p)
    \/ CLoad(p)
    \/ CZipOpen(p)
    \/ CExtract(p)
    \/ CExtractEnd(p)
    \/ CRemove(p)
    \/ CUrlOpen(p)
    \/ CCopyEnd(p)

\* The cache is empty, holds the archive, or holds the source file; neither
\* invocation has been called.
InitConc ==
    /\ baseDir \in BOOLEAN
    /\ csv \in {None, Some(DatasetLines)}
    /\ zip \in {None, Some(GoodArchive)}
    /\ (~baseDir => csv = None /\ zip = None)
    /\ userFile = None /\ stray = {}
    /\ pc = "idle" /\ mode = "default" /\ depth = 0 /\ outcome = "none"
    /\ table = <<>> /\ calls = 0
    /\ start = [csv |-> csv, zip |-> zip, baseDir |-> baseDir]
    /\ fetches = 0 /\ extractions = 0 /\ removals = 0 /\ mkdirs = 0 /\ loads = 0
    /\ lost = FALSE
    /\ prev = [outcome |-> "none", table |-> <<>>, mode |-> "default", calls |-> 0]
    /\ AuxIdle

NextConc ==
    \/ \E p \in Procs : CStart(p)
    \/ \E p \in Procs : CCheckCsv(p)
    \/ \E p \in Procs : CCheckZip(p)
    \/ \E p \in Procs : CLoad(p)
    \/ \E p \in Procs : CZipOpen(p)
    \/ \E p \in Procs : CExtract(p)
    \/ \E p \in Procs : CExtractEnd(p)
    \/ \E p \in Procs : CRemove(p)
    \/ \E p \in Procs : CUrlOpen(p)
    \/ \E p \in Procs : CCopyEnd(p)

SpecConc == InitConc /\ [][NextConc]_vars

----------------------------------------------------------------------------
(* C18 *)

\* invocation p opened for extraction an archive the other was still writing
ExtractsWhileWritten(p) == procs[p].sawWriter

\* invocation p failed opening or deleting an archive that was not there
FailsOnDeleted(p) == procs[p].outcome = "FileNotFoundError"

\* both invocations downloaded the archive
BothDownload == \A p \in Procs : procs[p].fetches >= 1

\* C18: two invocations on the same cache directory run with no locking: an
\* invocation in progress can always take its next step, whatever the other
\* is doing.  Extracting an archive that is still being written, failing on
\* an archive that is no longer there, an archive error and a double
\* download happen only to invocations that ran at the same time; the
\* interleaving in which they happen is the witness.
C18_UnlockedRace ==
    /\ \A p \in Procs : Active(p) => ENABLED CStep(p)
    /\ \A p \in Procs :
          (\/ ExtractsWhileWritten(p)
           \/ FailsOnDeleted(p)
           \/ procs[p].outcome = "ArchiveError"
           \/ BothDownload) => procs[p].overlapped

\* Both invocations have downloaded the archive, one opened it for
\* extraction while the other was still writing it, and the other has
\* failed deleting the archive the first had already deleted.
C18_Witness ==
    \E p \in Procs : \E q \in Others(p) :
       /\ BothDownload
       /\ ExtractsWhileWritten(p)
       /\ procs[q].pc = "done" /\ FailsOnDeleted(q)
       /\ procs[q].depth = 2
       /\ zip = None /\ IsSome(csv)

====
